---- MODULE Spec2Model ----
(***************************************************************************)
(* Model of app.py, the Streamlit resume screening script.                 *)
(*                                                                         *)
(* One run of the script (one interaction) is the state machine            *)
(*   guard (line 98) -> loop (lines 103-110) -> finish (lines 112-137)     *)
(* and the two memoized helpers, extract_text_from_pdf and rank_resumes,   *)
(* are operators wrapped by the st.cache_data memo tables, which outlive   *)
(* a run.                                                                  *)
(*                                                                         *)
(* Text is a sequence of one-character strings.  A PDF is what PdfReader   *)
(* makes of it: whether it parses, and per page whether extract_text()     *)
(* raises and the text it returns.  A score is the squared cosine of the   *)
(* TF-IDF vectors in percent, with the smoothed idf in tenths; squaring    *)
(* keeps the order of the non-negative cosines.                            *)
(***************************************************************************)
EXTENDS Integers, Sequences, FiniteSets

VARIABLES
    job_description,  \* st.text_area value (line 85)
    uploaded_files,   \* st.file_uploader value: sequence of [name, content] (line 93)
    pc,               \* position of the script: guard, loop, finish, done, crashed
    idx,              \* index of the next file of the for loop (line 103)
    resumes,          \* line 100
    resume_names,     \* line 101
    valid_files,      \* line 102
    extractCalls,     \* indices of uploaded_files handed to extract_text_from_pdf, in call order
    extracted,        \* the value each of those calls returned
    rankCalls,        \* arguments of each rank_resumes call of this run
    scores,           \* line 114
    frame,            \* the DataFrame of lines 115-117, before sorting
    results,          \* the DataFrame after lines 118-121
    csv,              \* results.to_csv(index=False) (line 127)
    messages,         \* st.error / st.warning / table elements emitted by this run, in order
    extractCache,     \* st.cache_data memo of extract_text_from_pdf (line 11)
    rankCache,        \* st.cache_data memo of rank_resumes (line 25)
    run               \* number of the current script run

vars == <<job_description, uploaded_files, pc, idx, resumes, resume_names, valid_files,
          extractCalls, extracted, rankCalls, scores, frame, results, csv, messages,
          extractCache, rankCache, run>>

-----------------------------------------------------------------------------
(* Bounds *)

MaxFiles == 2
MaxRuns == 2

-----------------------------------------------------------------------------
(* Inputs *)

Range(s) == { s[k] : k \in DOMAIN s }

Page(t) == [raises |-> FALSE, text |-> t]
BadPage == [raises |-> TRUE, text |-> <<>>]
Pdf(pages) == [parses |-> TRUE, pages |-> pages]

PdfCorrupt == [parses |-> FALSE, pages |-> <<>>]
PdfNoPages == Pdf(<<>>)
PdfImageOnly == Pdf(<<Page(<<>>)>>)
PdfBlank == Pdf(<<Page(<<" ">>)>>)
PdfLetter == Pdf(<<Page(<<"a">>)>>)
PdfAb == Pdf(<<Page(<<"a", "b">>)>>)
PdfSplitAb == Pdf(<<Page(<<"a">>), Page(<<"b">>)>>)
PdfBa == Pdf(<<Page(<<"b", "a">>)>>)
PdfAbBa == Pdf(<<Page(<<"a", "b", " ">>), Page(<<"b", "a">>)>>)
PdfAbAb == Pdf(<<Page(<<"a", "b">>), Page(<<" ">>), Page(<<"A", "b">>)>>)
PdfBreaks == Pdf(<<Page(<<"a", "b">>), BadPage>>)

PdfLibrary ==
    { PdfCorrupt, PdfNoPages, PdfImageOnly, PdfBlank, PdfLetter, PdfAb, PdfSplitAb,
      PdfBa, PdfAbBa, PdfAbAb, PdfBreaks }

FileNames == { "A.pdf", "B.pdf" }

UploadedFile(n, c) == [name |-> n, content |-> c]

Files == { UploadedFile(n, c) : n \in FileNames, c \in PdfLibrary }

SeqsUpTo(S, n) == UNION { [1..k -> S] : k \in 0..n }

Uploads == SeqsUpTo(Files, MaxFiles)

JobDescriptions ==
    { <<>>, <<"a">>, <<"A", "b">>, <<"b", "a">>, <<"a", "b", " ", "b", "a">> }

SessionUploads ==
    { <<>>,
      <<UploadedFile("A.pdf", PdfAb)>>,
      <<UploadedFile("A.pdf", PdfBa)>>,
      <<UploadedFile("A.pdf", PdfAb), UploadedFile("B.pdf", PdfAbBa)>>,
      <<UploadedFile("A.pdf", PdfAbBa), UploadedFile("B.pdf", PdfAb)>>,
      <<UploadedFile("A.pdf", PdfBa), UploadedFile("B.pdf", PdfBreaks)>>,
      <<UploadedFile("B.pdf", PdfLetter)>> }

SessionJobDescriptions == { <<>>, <<"a">>, <<"A", "b">>, <<"b", "a">> }

-----------------------------------------------------------------------------
(* extract_text_from_pdf, lines 12-22 *)

None == [ok |-> FALSE, text |-> <<>>]
Str(t) == [ok |-> TRUE, text |-> t]

\* Variant: "if text is not None" instead of "if text".
TruthyIsNotNone(r) == r.ok

\* Python truthiness of the value extract_text_from_pdf returns (line 105):
\* None and "" are falsy.
Truthy(r) == r.ok /\ r.text # <<>>

\* Variant: the try block inside the page loop, so that a page that raises
\* ends the loop with the text read so far.
RECURSIVE ReadPagesKeepingPartial(_, _, _)
ReadPagesKeepingPartial(pages, k, text) ==
    IF k > Len(pages) \/ pages[k].raises THEN Str(text)
    ELSE ReadPagesKeepingPartial(pages, k + 1, text \o pages[k].text)

ExtractKeepingPartial(content) ==
    IF ~content.parses THEN None ELSE ReadPagesKeepingPartial(content.pages, 1, <<>>)

RECURSIVE ReadPages(_, _, _)
ReadPages(pages, k, text) ==
    IF k > Len(pages) THEN Str(text)
    ELSE IF pages[k].raises THEN None
    ELSE ReadPages(pages, k + 1, text \o pages[k].text)

extract_text_from_pdf(content) ==
    IF ~content.parses THEN None ELSE ReadPages(content.pages, 1, <<>>)

-----------------------------------------------------------------------------
(* rank_resumes, lines 26-36 *)

IsWordChar(c) == c \in { "a", "b", "A", "B" }

Lower(c) == IF c = "A" THEN "a" ELSE IF c = "B" THEN "b" ELSE c

KeepToken(cur, acc) == IF Len(cur) >= 2 THEN Append(acc, cur) ELSE acc

\* TfidfVectorizer's default analyzer: lowercase, then token_pattern
\* (?u)\b\w\w+\b, the maximal runs of two or more word characters.
RECURSIVE Scan(_, _, _, _)
Scan(text, k, cur, acc) ==
    IF k > Len(text) THEN KeepToken(cur, acc)
    ELSE IF IsWordChar(text[k]) THEN Scan(text, k + 1, Append(cur, Lower(text[k])), acc)
    ELSE Scan(text, k + 1, <<>>, KeepToken(cur, acc))

Tokens(text) == Scan(text, 1, <<>>, <<>>)

Vocabulary(documents) == UNION { Range(Tokens(documents[k])) : k \in DOMAIN documents }

Tf(term, text) ==
    LET toks == Tokens(text) IN Cardinality({ k \in DOMAIN toks : toks[k] = term })

Df(term, documents) ==
    Cardinality({ k \in DOMAIN documents : term \in Range(Tokens(documents[k])) })

\* smooth_idf: ln((1 + n) / (1 + df)) + 1, in tenths.
Idf(n, df) ==
    LET table == << <<10>>,
                    <<14, 10>>,
                    <<17, 13, 10>>,
                    <<19, 15, 12, 10>>,
                    <<21, 17, 14, 12, 10>>,
                    <<23, 18, 16, 13, 12, 10>> >>
    IN table[n][df]

Weight(term, text, documents) ==
    Tf(term, text) * Idf(Len(documents), Df(term, documents))

RECURSIVE SumOver(_, _, _, _)
SumOver(terms, a, b, documents) ==
    IF terms = {} THEN 0
    ELSE LET t == CHOOSE x \in terms : TRUE
         IN Weight(t, a, documents) * Weight(t, b, documents)
            + SumOver(terms \ {t}, a, b, documents)

Dot(a, b, documents) == SumOver(Vocabulary(documents), a, b, documents)

\* cosine_similarity of two rows: 0 when either row is all zero.
CosineSimilarity(a, b, documents) ==
    LET d == Dot(a, b, documents)
        na == Dot(a, a, documents)
        nb == Dot(b, b, documents)
    IN IF na = 0 \/ nb = 0 THEN 0 ELSE (d * d * 100) \div (na * nb)

Raised == [raised |-> TRUE, value |-> <<>>]
Returned(v) == [raised |-> FALSE, value |-> v]

\* fit_transform raises ValueError("empty vocabulary ...") when no document
\* holds a token.
rank_resumes(jd, texts) ==
    LET documents == <<jd>> \o texts
    IN IF Vocabulary(documents) = {} THEN Raised
       ELSE Returned([k \in 1..Len(texts) |-> CosineSimilarity(jd, texts[k], documents)])

-----------------------------------------------------------------------------
(* st.cache_data, lines 11 and 25 *)

\* Variant: a memo keyed by the file's name alone.
ExtractKeyByName(file) == file.name

\* The memo key of extract_text_from_pdf's argument: the uploaded file's name
\* and bytes.
ExtractKey(file) == file

\* The memo key of rank_resumes' arguments: the job description and the list
\* of resume texts, in order.
RankKey(jd, texts) == <<jd, texts>>

\* A memo table is a set of [key, value] entries, at most one per key.
Cached(cache, key) == \E e \in cache : e.key = key

Lookup(cache, key) == (CHOOSE e \in cache : e.key = key).value

Store(cache, key, value) ==
    IF Cached(cache, key) THEN cache ELSE cache \cup { [key |-> key, value |-> value] }

CachedExtract(file) ==
    IF Cached(extractCache, ExtractKey(file))
    THEN Lookup(extractCache, ExtractKey(file))
    ELSE extract_text_from_pdf(file.content)

CachedRank(jd, texts) ==
    IF Cached(rankCache, RankKey(jd, texts))
    THEN Lookup(rankCache, RankKey(jd, texts))
    ELSE rank_resumes(jd, texts)

-----------------------------------------------------------------------------
(* The script *)

NoScores == <<>>
NoFrame == <<>>

MsgReadError == "st.error: Error reading PDF"
MsgBatchError == "st.error: An error occurred during PDF processing"
MsgNoResumes == "st.warning: No resumes were successfully processed"
MsgNeedJobDescription == "st.warning: Please enter a job description"
MsgNeedResumes == "st.warning: Please upload resumes to rank"
MsgTable == "st.dataframe: Ranking Results"

Fresh(jd, files) ==
    /\ job_description = jd
    /\ uploaded_files = files
    /\ pc = "guard"
    /\ idx = 1
    /\ resumes = <<>>
    /\ resume_names = <<>>
    /\ valid_files = TRUE
    /\ extractCalls = <<>>
    /\ extracted = <<>>
    /\ rankCalls = <<>>
    /\ scores = NoScores
    /\ frame = NoFrame
    /\ results = NoFrame
    /\ csv = NoFrame
    /\ messages = <<>>

Init ==
    /\ \E jd \in JobDescriptions, files \in Uploads : Fresh(jd, files)
    /\ extractCache = {}
    /\ rankCache = {}
    /\ run = 1

SessionInit ==
    /\ \E jd \in SessionJobDescriptions, files \in SessionUploads : Fresh(jd, files)
    /\ extractCache = {}
    /\ rankCache = {}
    /\ run = 1

\* Variant: "if uploaded_files:".
GuardIgnoresJobDescription(files, jd) == files # <<>>

\* Line 98: both inputs are truthy.
GuardPasses(files, jd) == files # <<>> /\ jd # <<>>

\* Lines 98 and 138-141.
Guard ==
    /\ pc = "guard"
    /\ IF GuardPasses(uploaded_files, job_description)
       THEN pc' = "loop" /\ messages' = messages
       ELSE /\ pc' = "done"
            /\ messages' =
                 IF uploaded_files # <<>> /\ job_description = <<>>
                 THEN Append(messages, MsgNeedJobDescription)
                 ELSE IF job_description # <<>> /\ uploaded_files = <<>>
                 THEN Append(messages, MsgNeedResumes)
                 ELSE messages
    /\ UNCHANGED <<job_description, uploaded_files, idx, resumes, resume_names, valid_files,
                   extractCalls, extracted, rankCalls, scores, frame, results, csv,
                   extractCache, rankCache, run>>

\* Variant: line 109 missing.
ValidAfterUnmarked(valid, text) == valid

\* Line 109: a falsy text marks the batch invalid.
ValidAfter(valid, text) == IF Truthy(text) THEN valid ELSE FALSE

\* Variant: line 110 missing.
LoopNeverBreaks(text) == TRUE

\* Line 110: a falsy text leaves the loop.
LoopContinues(text) == Truthy(text)

\* One iteration of the loop of lines 103-110.
ExtractStep ==
    /\ pc = "loop"
    /\ LET file == uploaded_files[idx]
           text == CachedExtract(file)
       IN /\ extractCalls' = Append(extractCalls, idx)
          /\ extracted' = Append(extracted, text)
          /\ extractCache' = Store(extractCache, ExtractKey(file), text)
          /\ messages' = IF text.ok THEN messages ELSE Append(messages, MsgReadError)
          /\ resumes' = IF Truthy(text) THEN Append(resumes, text.text) ELSE resumes
          /\ resume_names' = IF Truthy(text) THEN Append(resume_names, file.name)
                             ELSE resume_names
          /\ valid_files' = ValidAfter(valid_files, text)
          /\ idx' = idx + 1
          /\ pc' = IF LoopContinues(text) /\ idx < Len(uploaded_files) THEN "loop"
                   ELSE "finish"
    /\ UNCHANGED <<job_description, uploaded_files, rankCalls, scores, frame, results, csv,
                   rankCache, run>>

\* Variant: "if resumes:" alone.
ShouldRankPartial(valid, texts) == texts # <<>>

\* Lines 112-113.
ShouldRank(valid, texts) == valid /\ texts # <<>>

\* Lines 115-117: one row per name, with the score at the same position.
DataFrame(names, values) ==
    [k \in 1..Len(names) |-> [Resume |-> names[k], Score |-> values[k]]]

Permutations(n) == { p \in [1..n -> 1..n] : \A a, b \in 1..n : a # b => p[a] # p[b] }

\* Variant: ascending=False missing (the default is ascending).
Ascending(rows) == \A a, b \in 1..Len(rows) : a < b => rows[a].Score <= rows[b].Score

Descending(rows) == \A a, b \in 1..Len(rows) : a < b => rows[a].Score >= rows[b].Score

\* Lines 118-121: sort_values(by="Score", ascending=False) with the default
\* kind (quicksort, which pandas documents as not stable), reset_index(drop=True)
\* and index += 1.  Every descending arrangement of the rows is a possible frame.
SortValues(rows) ==
    { [k \in 1..Len(rows) |-> [Index |-> (k - 1) + 1,
                               Resume |-> rows[p[k]].Resume,
                               Score |-> rows[p[k]].Score]] :
        p \in { q \in Permutations(Len(rows)) :
                  Descending([k \in 1..Len(rows) |-> rows[q[k]]]) } }

\* Line 127: to_csv(index=False) keeps the columns Resume and Score.
ToCsv(rows) == [k \in 1..Len(rows) |-> <<rows[k].Resume, rows[k].Score>>]

\* Lines 112-137.
Finish ==
    /\ pc = "finish"
    /\ IF ShouldRank(valid_files, resumes)
       THEN LET r == CachedRank(job_description, resumes)
            IN /\ rankCalls' = Append(rankCalls, <<job_description, resumes>>)
               /\ IF r.raised
                  THEN /\ pc' = "crashed"
                       /\ UNCHANGED <<scores, frame, results, csv, messages, rankCache>>
                  ELSE /\ pc' = "done"
                       /\ scores' = r.value
                       /\ frame' = DataFrame(resume_names, r.value)
                       /\ \E sorted \in SortValues(DataFrame(resume_names, r.value)) :
                            /\ results' = sorted
                            /\ csv' = ToCsv(sorted)
                       /\ messages' = Append(messages, MsgTable)
                       /\ rankCache' =
                            Store(rankCache, RankKey(job_description, resumes), r)
       ELSE /\ pc' = "done"
            /\ messages' = Append(messages,
                                  IF valid_files THEN MsgNoResumes ELSE MsgBatchError)
            /\ UNCHANGED <<rankCalls, scores, frame, results, csv, rankCache>>
    /\ UNCHANGED <<job_description, uploaded_files, idx, resumes, resume_names, valid_files,
                   extractCalls, extracted, extractCache, run>>

\* Streamlit runs the script again on the next interaction; the memo tables
\* of lines 11 and 25 are kept.
Rerun ==
    /\ pc \in { "done", "crashed" }
    /\ run < MaxRuns
    /\ run' = run + 1
    /\ \E jd \in SessionJobDescriptions, files \in SessionUploads :
         /\ job_description' = jd
         /\ uploaded_files' = files
    /\ pc' = "guard"
    /\ idx' = 1
    /\ resumes' = <<>>
    /\ resume_names' = <<>>
    /\ valid_files' = TRUE
    /\ extractCalls' = <<>>
    /\ extracted' = <<>>
    /\ rankCalls' = <<>>
    /\ scores' = NoScores
    /\ frame' = NoFrame
    /\ results' = NoFrame
    /\ csv' = NoFrame
    /\ messages' = <<>>
    /\ UNCHANGED <<extractCache, rankCache>>

Next == Guard \/ ExtractStep \/ Finish

SessionNext == Guard \/ ExtractStep \/ Finish \/ Rerun

Spec == Init /\ [][Next]_vars

SessionSpec == SessionInit /\ [][SessionNext]_vars

-----------------------------------------------------------------------------
(* Properties *)

Last(s) == s[Len(s)]

Finished == pc \in { "done", "crashed" }

\* The text of a PDF all of whose pages extract: the pages' texts one after
\* the other, nothing in between.
RECURSIVE PagesJoined(_)
PagesJoined(pages) ==
    IF pages = <<>> THEN <<>> ELSE Head(pages).text \o PagesJoined(Tail(pages))

Extracts(content) ==
    content.parses /\ \A p \in DOMAIN content.pages : ~content.pages[p].raises

\* C1: once a call of extract_text_from_pdf has returned the failure signal,
\* it is the last call of the run (the files before it, and no file after
\* it, were handed to the extractor), the batch is marked invalid,
\* rank_resumes is not called, no table is produced, and the run ends with the
\* batch error.
C1_FailFast ==
    \A k \in DOMAIN extracted :
        ~extracted[k].ok =>
            /\ k = Len(extracted)
            /\ extractCalls = [j \in 1..k |-> j]
            /\ pc \in { "finish", "done" }
            /\ ~valid_files
            /\ rankCalls = <<>>
            /\ scores = NoScores /\ results = NoFrame /\ csv = NoFrame
            /\ MsgTable \notin Range(messages)
            /\ (pc = "done" => Last(messages) = MsgBatchError)

C1_Witness ==
    /\ pc = "done"
    /\ Len(uploaded_files) = 2
    /\ Extracts(uploaded_files[2].content)
    /\ Len(extracted) = 1
    /\ ~extracted[1].ok

\* C2: a ranking result has one row per uploaded file, every one of which
\* was extracted successfully; and when the extraction of any uploaded file
\* fails there is no ranking result, partial or otherwise.
C2_RowsMatchExtracted ==
    /\ results # NoFrame =>
          /\ Len(results) = Cardinality({ k \in DOMAIN extracted : extracted[k].ok })
          /\ Len(results) = Len(uploaded_files)
          /\ Len(csv) = Len(results)
    /\ (\E k \in DOMAIN uploaded_files : ~Extracts(uploaded_files[k].content)) =>
          /\ results = NoFrame /\ csv = NoFrame /\ scores = NoScores
          /\ MsgTable \notin Range(messages)

C2_Witness ==
    /\ pc = "done"
    /\ Len(uploaded_files) = 2
    /\ Len(results) = 2

\* C3 as stated: an empty job description or an empty upload never reaches
\* rank_resumes, and the finished run has emitted a warning in each of the
\* three cases.
C3_WarnsInAllThreeCases ==
    (job_description = <<>> \/ uploaded_files = <<>>) =>
        /\ rankCalls = <<>>
        /\ pc = "done" =>
             \E m \in { MsgNeedJobDescription, MsgNeedResumes } : m \in Range(messages)

\* C3 as amended: an empty job description or an empty upload never reaches
\* the extractor or rank_resumes; the finished run has emitted exactly the
\* job-description warning when only the job description is missing, exactly
\* the upload warning when only the resumes are missing, and nothing when both
\* are missing.
C3_WarnsWhenOneIsMissing ==
    (job_description = <<>> \/ uploaded_files = <<>>) =>
        /\ rankCalls = <<>>
        /\ extractCalls = <<>>
        /\ pc \in { "guard", "done" }
        /\ pc = "done" =>
             messages = IF uploaded_files # <<>> THEN <<MsgNeedJobDescription>>
                        ELSE IF job_description # <<>> THEN <<MsgNeedResumes>>
                        ELSE <<>>

C3_Witness ==
    /\ pc = "done"
    /\ job_description = <<>>
    /\ uploaded_files = <<>>
    /\ messages = <<>>

\* C4: a call of extract_text_from_pdf that returns the empty string ends the
\* batch as a failure does: it is the last call, the batch is invalid and
\* ends with the batch error, the empty text is not in the resume list, is
\* not passed to rank_resumes and is in no result.
C4_EmptyTextRejected ==
    /\ \A k \in DOMAIN extracted :
          (extracted[k].ok /\ extracted[k].text = <<>>) =>
              /\ k = Len(extracted)
              /\ Len(resumes) = k - 1
              /\ pc \in { "finish", "done" }
              /\ ~valid_files
              /\ rankCalls = <<>>
              /\ scores = NoScores /\ results = NoFrame /\ csv = NoFrame
              /\ (pc = "done" => Last(messages) = MsgBatchError)
    /\ <<>> \notin Range(resumes)
    /\ \A c \in DOMAIN rankCalls : <<>> \notin Range(rankCalls[c][2])

C4_Witness ==
    /\ pc = "done"
    /\ Len(uploaded_files) = 2
    /\ Len(extracted) = 2
    /\ extracted[1].ok
    /\ extracted[2] = Str(<<>>)

AllUploadsFail ==
    /\ job_description # <<>>
    /\ uploaded_files # <<>>
    /\ \A k \in DOMAIN uploaded_files : ~Extracts(uploaded_files[k].content)

C6_VectorizationFailureCaught ==
    \A c \in DOMAIN rankCalls :
        Vocabulary(<<rankCalls[c][1]>> \o rankCalls[c][2]) = {} =>
            /\ pc = "done"
            /\ Last(messages) \in { MsgBatchError, MsgReadError }

StableDescending(rows) ==
    [k \in 1..Len(rows) |->
        LET src == CHOOSE j \in 1..Len(rows) :
                     k = 1 + Cardinality({ h \in 1..Len(rows) :
                                             \/ rows[h].Score > rows[j].Score
                                             \/ rows[h].Score = rows[j].Score /\ h < j })
        IN <<rows[src].Resume, rows[src].Score>>]

RowCount(rows, name, score) ==
    Cardinality({ k \in DOMAIN rows : rows[k].Resume = name /\ rows[k].Score = score })

\* C7 as stated: the displayed and exported rows are the (name, score) pairs
\* by descending score, equal scores in upload order, ranked 1..n.
C7_StableDescendingOrder ==
    results # NoFrame =>
        /\ ToCsv(results) = StableDescending(frame)
        /\ csv = StableDescending(frame)
        /\ \A k \in DOMAIN results : results[k].Index = k

\* C7 as amended: the displayed and exported rows are the (name, score) pairs
\* rearranged by descending score and ranked 1..n; the order of rows with
\* equal scores is not fixed.
C7_DescendingOrder ==
    results # NoFrame =>
        /\ Len(results) = Len(frame)
        /\ \A k \in DOMAIN frame :
              RowCount(results, frame[k].Resume, frame[k].Score)
                = RowCount(frame, frame[k].Resume, frame[k].Score)
        /\ \A a, b \in DOMAIN results : a < b => results[a].Score >= results[b].Score
        /\ \A k \in DOMAIN results : results[k].Index = k
        /\ csv = [k \in DOMAIN results |-> <<results[k].Resume, results[k].Score>>]

C7_Witness ==
    /\ Len(results) = 2
    /\ results[1].Score > results[2].Score
    /\ results[1].Resume = frame[2].Resume
    /\ results[1].Score = frame[2].Score
    /\ frame[1].Resume # frame[2].Resume

\* C8 as stated: with a job description given and every uploaded file
\* extracted to a non-empty text, the finished run has one score per file, and
\* before sorting row i holds file i's name and the score of file i's text.
C8_OneAlignedScorePerResume ==
    (/\ Finished
     /\ job_description # <<>>
     /\ uploaded_files # <<>>
     /\ \A k \in DOMAIN uploaded_files :
           /\ Extracts(uploaded_files[k].content)
           /\ PagesJoined(uploaded_files[k].content.pages) # <<>>) =>
        LET texts == [k \in DOMAIN uploaded_files |->
                        PagesJoined(uploaded_files[k].content.pages)]
        IN /\ Len(scores) = Len(uploaded_files)
           /\ Len(frame) = Len(uploaded_files)
           /\ \A k \in DOMAIN frame :
                 /\ frame[k].Resume = uploaded_files[k].name
                 /\ frame[k].Score = scores[k]
                 /\ scores[k] = CosineSimilarity(job_description, texts[k],
                                                 <<job_description>> \o texts)

\* C9: every value a memoized call returned in this run, and every value the
\* memo tables hold, is the value the function computes on that call's own
\* arguments.
C9_MemoTransparent ==
    /\ \A k \in DOMAIN extracted :
          extracted[k] = extract_text_from_pdf(uploaded_files[extractCalls[k]].content)
    /\ \A f \in Files :
          Cached(extractCache, ExtractKey(f)) =>
              Lookup(extractCache, ExtractKey(f)) = extract_text_from_pdf(f.content)
    /\ \A e \in rankCache : e.value = rank_resumes(e.key[1], e.key[2])
    /\ (pc = "done" /\ rankCalls # <<>>) =>
          Returned(scores) = rank_resumes(job_description, resumes)

C9_Witness ==
    /\ run > 1
    /\ pc = "done"
    /\ results # NoFrame
    /\ \E f \in Files :
          /\ f.name = uploaded_files[1].name
          /\ f.content # uploaded_files[1].content
          /\ Cached(extractCache, ExtractKey(f))
    /\ \E e \in rankCache :
          /\ e.key # RankKey(job_description, resumes)
          /\ e.key[1] = job_description
          /\ Range(e.key[2]) = Range(resumes)

\* C10: a call of extract_text_from_pdf returns the pages' texts joined in
\* page order with nothing between them when the file parses and every page
\* extracts, and the failure signal, with none of the text of the earlier
\* pages, otherwise.
C10_PagesConcatenated ==
    \A k \in DOMAIN extracted :
        LET content == uploaded_files[extractCalls[k]].content
        IN IF Extracts(content)
           THEN extracted[k] = Str(PagesJoined(content.pages))
           ELSE extracted[k] = None

C10_Witness ==
    /\ Len(extracted) = 2
    /\ uploaded_files[1].content = PdfAbBa
    /\ extracted[1] = Str(<<"a", "b", " ", "b", "a">>)
    /\ uploaded_files[2].content = PdfBreaks
    /\ extracted[2] = None

====
